---- MODULE Spec2Model ----
(***************************************************************************)
(* Model of the download-and-decryption core of the offload disk client   *)
(* (src/src-tauri/src/main.rs): the task registry, the per-archive        *)
(* download driver with its direct/relay policy, the part cache, and the  *)
(* streaming AES-256-GCM decryptor.                                       *)
(*                                                                         *)
(* Bytes are small naturals; a file is the sequence of its bytes, and a   *)
(* missing file is NoFile.  SHA-256 and GHASH are modelled symbolically   *)
(* (collision-free): a digest is a record holding what was hashed.        *)
(* Time is the value of Instant::now() in seconds.                        *)
(***************************************************************************)
EXTENDS Integers, Sequences, FiniteSets, TLC

\* ------------------------------------------------------------------ bounds
\* Number of start_archive_download calls that get as far as a task id: in
\* Spec, and in SpecResume (an interrupted download and its resumption).
MaxTasks == 1
ResumeTasks == 2
\* Number of times the clock advances.
MaxTicks == 1
\* Longest ciphertext and largest number of parts of the decryptor's own
\* specification (SpecGcm).
MaxCipherLen == 20
MaxGcmParts == 3
\* Number of failures (error replies, corrupt bodies, broken streams, failed
\* reads) the environment produces in one behaviour.
MaxFaults == 2
\* SpecPair: the downloads started, which may all run at once.
PairTasks == 2
\* SpecSan: the longest run of filler letters in a name given to the sanitizer.
MaxFill == 256

\* --------------------------------------------------------------- constants
DIRECT_RETRY_INTERVAL == 300
BlockLen == 16
IvLen == 12
TagLen == 16
BufferLen == 1048576
MaxNameBytes == 255

\* The clock advances in steps of the retry interval: a part is visited in the
\* same interval as an earlier failure (before next_direct_check) or in a
\* later one.
TickSeconds == DIRECT_RETRY_INTERVAL

\* -------------------------------------------------------------- primitives
NoFile == <<-1>>
None == [some |-> FALSE, v |-> 0]
Some(x) == [some |-> TRUE, v |-> x]

Min(a, b) == IF a <= b THEN a ELSE b

RECURSIVE Concat(_)
Concat(ss) == IF ss = <<>> THEN <<>> ELSE Head(ss) \o Concat(Tail(ss))

RECURSIVE SumSizes(_)
SumSizes(ps) == IF ps = <<>> THEN 0 ELSE Head(ps).size + SumSizes(Tail(ps))

\* format!("{:x}", Sha256::digest(bytes)): symbolic, collision-free.
Sha256Hex(bytes) == [sha256 |-> bytes]

\* Bitwise exclusive or of two naturals.
RECURSIVE XorByte(_, _)
XorByte(a, b) ==
  IF a = 0 /\ b = 0 THEN 0
  ELSE (((a % 2) + (b % 2)) % 2) + 2 * XorByte(a \div 2, b \div 2)

\* Byte number pos (from 0) of the AES-CTR key stream that starts at inc32(J0).
Keystream(pos) == ((7 * pos) + 5) % 16

\* ctr.apply_keystream on a chunk that starts at stream position pos.
ApplyKeystream(chunk, pos) ==
  [i \in 1..Len(chunk) |-> XorByte(chunk[i], Keystream(pos + i - 1))]

\* ------------------------------------------------- streaming GCM (pure part)
\* A GHASH accumulator is the sequence of 16-byte blocks fed to it so far
\* (GHASH itself is the library's; it is collision-free here), together with
\* the residual buffer ghash_rem.
GhashNew == [blocks |-> <<>>, rem |-> <<>>]

\* The while loop of ghash_update: feed and drain full blocks.
RECURSIVE GhashDrain(_)
GhashDrain(g) ==
  IF Len(g.rem) >= BlockLen
  THEN GhashDrain([blocks |-> Append(g.blocks, SubSeq(g.rem, 1, BlockLen)),
                   rem |-> SubSeq(g.rem, BlockLen + 1, Len(g.rem))])
  ELSE g

\* An accumulator that forgets the residual bytes of the call before.
ghash_update_NoCarry(g, data) == GhashDrain([blocks |-> g.blocks, rem |-> data])

ghash_update(g, data) == GhashDrain([blocks |-> g.blocks, rem |-> g.rem \o data])

\* Byte k (0 = least significant) of a 64-bit value; the model's lengths are
\* below 2^31, so bytes 4..7 are zero.
BeByte(x, k) ==
  IF k >= 4 THEN 0
  ELSE IF k = 0 THEN x % 256
  ELSE IF k = 1 THEN (x \div 256) % 256
  ELSE IF k = 2 THEN (x \div 65536) % 256
  ELSE (x \div 16777216) % 256

\* len_block: bytes 0..7 zero (no AAD), bytes 8..15 cipher_len * 8 big-endian.
LenBlock(cipher_len) ==
  [i \in 1..BlockLen |-> IF i <= 8 THEN 0 ELSE BeByte(cipher_len * 8, BlockLen - i)]

ZeroPad(rem) == [i \in 1..BlockLen |-> IF i <= Len(rem) THEN rem[i] ELSE 0]

ghash_finalize(g, cipher_len) ==
  LET fed == IF g.rem # <<>> THEN Append(g.blocks, ZeroPad(g.rem)) ELSE g.blocks
  IN [blocks |-> Append(fed, LenBlock(cipher_len)), rem |-> <<>>]

\* ghash.finalize() xor tag_mask, tag_mask = AES_K(J0): the computed tag.
ComputedTag(g) == [ghash |-> g.blocks, mask |-> "AES_K(J0)"]

\* The tag of a whole ciphertext, as the server computes it.
GcmTag(cipher) == ComputedTag(ghash_finalize(ghash_update(GhashNew, cipher), Len(cipher)))

\* ------------------------------------------------------------------- state
VARIABLES
  client,      \* ApiState.client is Some
  master_key,  \* ApiState.master_key (an Option)
  nextId,      \* the number of task ids handed out
  tasks,       \* DownloadManager.tasks: id -> [item, cancel]
  drv,         \* id -> the locals and position of the spawned driver
  events,      \* id -> the download-progress events emitted for it
  now,         \* Instant::now(), seconds
  cache,       \* archive id -> the cache subdirectory offload_parts/<id>
  out,         \* output path -> file in the download directory
  faults,      \* the number of failures the environment has produced
  ret,         \* what the last command returned
  gcm,         \* the decryptor run of SpecGcm
  san,         \* the sanitizer calls of SpecSan
  plan         \* what the callers still do: the starts left and their inputs

vars == <<client, master_key, nextId, tasks, drv, events, now, cache, out, faults, ret, gcm, san, plan>>
mainVars == <<client, master_key, nextId, tasks, drv, events, now, cache, out, faults, ret, san, plan>>

\* ------------------------------------------- SpecGcm: the decryptor alone
\* The ciphertext of length n: byte i is i, so that any reordering, loss or
\* duplication of bytes shows.
Cipher(n) == [i \in 1..n |-> i]

\* Every way to cut n bytes into p parts (zero-length parts included).
RECURSIVE Partitions(_, _)
Partitions(n, p) ==
  IF p = 1 THEN {<<n>>}
  ELSE UNION {{<<a>> \o r : r \in Partitions(n - a, p - 1)} : a \in 0..n}

GcmIdle == [phase |-> "idle", sizes |-> <<>>, part |-> 0, off |-> 0,
            g |-> GhashNew, total_cipher_len |-> 0, plain |-> <<>>]

GcmInit ==
  \E n \in 0..MaxCipherLen : \E p \in 1..MaxGcmParts : \E sizes \in Partitions(n, p) :
    gcm = [phase |-> "read", sizes |-> sizes, part |-> 1, off |-> 0,
           g |-> GhashNew, total_cipher_len |-> 0, plain |-> <<>>]

\* The bytes of part j of the partition.
GcmPartBytes(sizes, j) ==
  LET before == SumSizes([i \in 1..(j - 1) |-> [size |-> sizes[i]]])
  IN SubSeq(Cipher(SumSizes([i \in 1..Len(sizes) |-> [size |-> sizes[i]]])),
            before + 1, before + sizes[j])

\* One pass of the read loop with n > 0: file.read returns a window of n bytes.
GcmReadWindow ==
  /\ gcm.phase = "read"
  /\ gcm.off < gcm.sizes[gcm.part]
  /\ \E n \in 1..Min(gcm.sizes[gcm.part] - gcm.off, BufferLen) :
       LET chunk == SubSeq(GcmPartBytes(gcm.sizes, gcm.part), gcm.off + 1, gcm.off + n)
       IN gcm' = [gcm EXCEPT
                    !.off = @ + n,
                    !.total_cipher_len = @ + n,
                    !.g = ghash_update(@, chunk),
                    !.plain = @ \o ApplyKeystream(chunk, gcm.total_cipher_len)]
  /\ UNCHANGED mainVars

\* file.read returns 0: break, and the for loop takes the next part.
GcmNextPart ==
  /\ gcm.phase = "read"
  /\ gcm.off = gcm.sizes[gcm.part]
  /\ gcm' = IF gcm.part < Len(gcm.sizes)
            THEN [gcm EXCEPT !.part = @ + 1, !.off = 0]
            ELSE [gcm EXCEPT !.phase = "finalize"]
  /\ UNCHANGED mainVars

GcmFinalize ==
  /\ gcm.phase = "finalize"
  /\ gcm' = [gcm EXCEPT !.phase = "done",
                        !.g = ghash_finalize(@, gcm.total_cipher_len)]
  /\ UNCHANGED mainVars

GcmNext == GcmReadWindow \/ GcmNextPart \/ GcmFinalize

\* ------------------------------------------------------ filename sanitizer
\* A name is the sequence of its characters; "U+00E9" stands for a character
\* of two bytes in UTF-8, every other character here is of one byte.
Utf8Len(c) == IF c = "U+00E9" THEN 2 ELSE 1

\* String::len: the length in bytes.
ByteLen(s) ==
  Cardinality(UNION {{<<i, b>> : b \in 1..Utf8Len(s[i])} : i \in 1..Len(s)})

\* str::is_char_boundary(n): n bytes are a whole number of characters.
is_char_boundary(s, n) == \E k \in 0..Len(s) : ByteLen(SubSeq(s, 1, k)) = n

\* String::truncate(n) where n is a character boundary.
truncate(s, n) == SubSeq(s, 1, CHOOSE k \in 0..Len(s) : ByteLen(SubSeq(s, 1, k)) = n)

InvalidChars == {"<", ">", ":", "\"", "/", "\\", "|", "?", "*"}

ReservedNames ==
  { <<"C","O","N">>, <<"P","R","N">>, <<"A","U","X">>, <<"N","U","L">> }
  \cup { <<"C","O","M",d>> : d \in {"1","2","3","4","5","6","7","8","9"} }
  \cup { <<"L","P","T",d>> : d \in {"1","2","3","4","5","6","7","8","9"} }

LowerToUpper ==
  [c \in {"a","c","d","l","n","o","p","r","t","u","x","z","m"} |->
     CASE c = "a" -> "A" [] c = "c" -> "C" [] c = "d" -> "D" [] c = "l" -> "L"
       [] c = "n" -> "N" [] c = "o" -> "O" [] c = "p" -> "P" [] c = "r" -> "R"
       [] c = "t" -> "T" [] c = "u" -> "U" [] c = "x" -> "X" [] c = "z" -> "Z"
       [] c = "m" -> "M"]

to_uppercase(s) ==
  [i \in 1..Len(s) |-> IF s[i] \in DOMAIN LowerToUpper THEN LowerToUpper[s[i]] ELSE s[i]]

RECURSIVE trim_end_matches(_)
trim_end_matches(s) ==
  IF s # <<>> /\ s[Len(s)] \in {".", " "}
  THEN trim_end_matches(SubSeq(s, 1, Len(s) - 1))
  ELSE s

StartsWith(s, prefix) ==
  Len(s) >= Len(prefix) /\ SubSeq(s, 1, Len(prefix)) = prefix

\* Lines 113-125: the name before the length limit is applied.
BeforeLimit(name) ==
  LET replaced == [i \in 1..Len(name) |-> IF name[i] \in InvalidChars THEN "_" ELSE name[i]]
      trimmed == trim_end_matches(replaced)
      safe == IF trimmed = <<>> THEN <<"_">> ELSE trimmed
      upper == to_uppercase(safe)
  IN IF \E r \in ReservedNames : upper = r \/ StartsWith(upper, r \o <<".">>)
     THEN <<"_">> \o safe ELSE safe

\* Lines 126-128: String::truncate panics when the limit is inside a character.
SanitizePanics(name) ==
  /\ ByteLen(BeforeLimit(name)) > MaxNameBytes
  /\ ~is_char_boundary(BeforeLimit(name), MaxNameBytes)

\* The value sanitize_filename returns when it returns.
sanitize_filename(name) ==
  IF ByteLen(BeforeLimit(name)) > MaxNameBytes
  THEN truncate(BeforeLimit(name), MaxNameBytes)
  ELSE BeforeLimit(name)

\* ------------------------------------------- SpecSan: the sanitizer alone
\* The names given to the sanitizer: a head, a run of the letter a, a tail.
Fill(n) == [i \in 1..n |-> "a"]

SanHeads ==
  { <<>>, <<"C","O","N">>, <<"c","o","n",".">>, <<"L","P","T","1",".","x">>,
    <<"U+00E9">>, <<"<">>, <<".">>, <<" ">>, <<"_">> }

SanTails ==
  { <<>>, <<".">>, <<" ">>, <<".","t">>, <<"*">>, <<"U+00E9">>, <<".","a","a">> }

SanNames ==
  { h \o Fill(n) \o t : h \in SanHeads, t \in SanTails,
                        n \in {0} \cup ((MaxFill - 6)..MaxFill) }

\* A call of the sanitizer: it returns a name, or the thread panics.
SanCall(name) ==
  IF SanitizePanics(name) THEN [ok |-> FALSE, v |-> <<>>]
  ELSE [ok |-> TRUE, v |-> sanitize_filename(name)]

SanIdle == [phase |-> "idle", name |-> <<>>, first |-> [ok |-> TRUE, v |-> <<>>],
            second |-> [ok |-> TRUE, v |-> <<>>]]

SanInit == \E name \in SanNames : san = [SanIdle EXCEPT !.phase = "given", !.name = name]

SanFirst ==
  /\ san.phase = "given"
  /\ san' = [san EXCEPT !.phase = "once", !.first = SanCall(san.name)]
  /\ UNCHANGED <<client, master_key, nextId, tasks, drv, events, now, cache, out,
                 faults, ret, gcm, plan>>

\* The sanitizer is given its own result.
SanSecond ==
  /\ san.phase = "once"
  /\ san.first.ok
  /\ san' = [san EXCEPT !.phase = "twice", !.second = SanCall(san.first.v)]
  /\ UNCHANGED <<client, master_key, nextId, tasks, drv, events, now, cache, out,
                 faults, ret, gcm, plan>>

SanNext == SanFirst \/ SanSecond

\* Path::with_extension on the file name: the part after the last dot that is
\* not the first character is replaced; a name without one gets the extension.
with_extension(name, ext) ==
  LET dots == {i \in 2..Len(name) : name[i] = "."}
      stem == IF dots = {} THEN name
              ELSE SubSeq(name, 1, (CHOOSE i \in dots : \A j \in dots : j <= i) - 1)
  IN stem \o <<".">> \o ext

\* ------------------------------------------------------- the service's data
ArchiveIds == {"A", "B", "C"}

\* The container format of a bundle's plaintext (the zip parser is a
\* collaborator): the byte ZipMagic, then one byte per entry.
ZipMagic == 12
DirByte == 0
\* The byte of an entry that holds no bytes.
EmptyByte == 3
EntryName(b) == IF b = 1 THEN <<"a">> ELSE IF b = 2 THEN <<"b">> ELSE <<"e">>

\* The plaintexts the server encrypted: "A" is a plain file, "B" a bundle of
\* the entries a and b, "C" a bundle of the empty entry e and the entry a.
PlainOf(a) ==
  IF a = "A" THEN <<1, 2, 3>>
  ELSE IF a = "B" THEN <<ZipMagic, 1, 2>>
  ELSE <<ZipMagic, EmptyByte, 1>>

\* AES-CTR encryption is the same key stream application as decryption.
CipherOf(a) == ApplyKeystream(PlainOf(a), 0)

\* The ciphertext is stored as parts 0 and 1 of 2 bytes and 1 byte.
StoredPart(a, index) ==
  IF index = 0 THEN SubSeq(CipherOf(a), 1, 2) ELSE SubSeq(CipherOf(a), 3, 3)

PartInfo(a, index) ==
  [index |-> index, size |-> Len(StoredPart(a, index)),
   hash |-> Sha256Hex(StoredPart(a, index)), url |-> "manifest"]

\* The manifest of a conforming server; parts come unordered.
GoodManifest(a) ==
  [archiveId |-> a, iv_len |-> IvLen,
   authTag |-> [len |-> TagLen, tag |-> GcmTag(CipherOf(a))],
   downloadName |-> IF a = "A" THEN Some(<<"f", ".", "t">>) ELSE None,
   displayName |-> Some(<<"z", ":">>),
   files |-> IF a = "A" THEN None
             ELSE Some(<< [originalName |-> Some(<<"a">>)], [originalName |-> None] >>),
   parts |-> << PartInfo(a, 1), PartInfo(a, 0) >>]

\* Manifests the service may answer with: the good one, and malformed or
\* stale ones.
ManifestKinds == {"good", "bad_tag", "bad_iv", "bad_tag_len", "bad_size"}

\* Good manifests with other names: a name of the stem of archive A's name,
\* a name ending in .download, a bundle whose first entry is named a.zip.
NameKinds == {"stem", "dot_download", "dot_zip"}

Manifest(a, kind) ==
  LET m == GoodManifest(a) IN
  CASE kind = "good" -> m
    [] kind = "bad_tag" -> [m EXCEPT !.authTag.tag = GcmTag(<<9>> \o Tail(CipherOf(a)))]
    [] kind = "bad_iv" -> [m EXCEPT !.iv_len = IvLen - 1]
    [] kind = "bad_tag_len" -> [m EXCEPT !.authTag.len = TagLen - 1]
    [] kind = "bad_size" -> [m EXCEPT !.parts[2].size = 5]
    [] kind = "stem" -> [m EXCEPT !.downloadName = Some(<<"f", ".", "u">>)]
    [] kind = "dot_download" ->
         [m EXCEPT !.downloadName = Some(<<"f", "."  >> \o <<"d","o","w","n","l","o","a","d">>)]
    [] kind = "dot_zip" ->
         [m EXCEPT !.files = Some(<< [originalName |-> Some(<<"a", ".", "z", "i", "p">>)],
                                     [originalName |-> None] >>)]

\* What a part request may be answered with: the stored bytes or other bytes.
CorruptBody(a, index) == <<9>> \o Tail(StoredPart(a, index))

\* ------------------------------------------------------------ main model
PartIndexes == {0, 1}
DownloadDirs == {"d"}

\* The calls of start_archive_download the model makes:
\* <<archive_id, file_index, the manifest the service answers with>>.
StartInputs ==
  { <<"A", None, kind>> : kind \in ManifestKinds }
  \cup { <<"A", Some(0), "good">>, <<"B", None, "good">>,
         <<"B", Some(0), "good">>, <<"B", Some(1), "good">> }

NoDir == [exists |-> FALSE, files |-> [i \in PartIndexes |-> NoFile]]
EmptyDir == [exists |-> TRUE, files |-> [i \in PartIndexes |-> NoFile]]

\* sort_by_key(|p| p.index): a stable insertion sort.
RECURSIVE InsertByIndex(_, _)
InsertByIndex(sorted, p) ==
  IF sorted = <<>> THEN <<p>>
  ELSE IF p.index < Head(sorted).index THEN <<p>> \o sorted
  ELSE <<Head(sorted)>> \o InsertByIndex(Tail(sorted), p)

RECURSIVE SortByIndex(_)
SortByIndex(ps) ==
  IF ps = <<>> THEN <<>>
  ELSE InsertByIndex(SortByIndex(SubSeq(ps, 1, Len(ps) - 1)), ps[Len(ps)])

OrElse(a, b) == IF a.some THEN a ELSE b

DefaultName == <<"d","o","w","n","l","o","a","d",".","b","i","n">>

\* download_name of start_archive_download.
DownloadName(m, file_index) ==
  LET fromFiles ==
        IF file_index.some /\ m.files.some /\ file_index.v + 1 <= Len(m.files.v)
        THEN m.files.v[file_index.v + 1].originalName
        ELSE None
      named == OrElse(OrElse(fromFiles, m.downloadName), m.displayName)
  IN IF named.some THEN named.v ELSE DefaultName

\* A driver that has returned: its locals are gone.
DoneDrv ==
  [pc |-> "done", archive_id |-> "", download_dir |-> "", file_index |-> None,
   m |-> <<>>, safe_name |-> <<>>, parts_sorted |-> <<>>, k |-> 0,
   downloaded |-> 0, last_tick |-> 0, discord_ok |-> TRUE,
   next_direct_check |-> 0, direct_ok |-> FALSE, attempt |-> 0, via |-> "",
   stream |-> <<>>, term |-> "", dk |-> 0, ghash |-> GhashNew,
   total_cipher_len |-> 0, decrypt_result |-> "",
   accepted |-> <<>>, visit |-> <<>>, last_success |-> "", saw_cancelled |-> FALSE,
   out_before |-> <<>>, fh |-> [linked |-> FALSE, path |-> <<>>, off |-> 0],
   touched |-> {}]

\* What the last command returned, and the requests the call has sent.
NoReturn == [v |-> "none", requests |-> 0]

\* The answers to the manifest request: no answer, a status, or a 2xx body
\* that is not a manifest.
ManifestReplies == {"network_error", "bad_json", "200", "500", "404"}

\* Lines 223-230: the returns of start_archive_download before the manifest
\* is there.
StartError(has_key, has_client, reply) ==
  IF ~has_key THEN "missing_master_key"
  ELSE IF ~has_client THEN "not_logged_in"
  ELSE IF reply = "network_error" THEN reply
  ELSE IF reply # "200" /\ reply # "bad_json" THEN "server_error:" \o reply
  ELSE IF reply = "bad_json" THEN reply
  ELSE "ok"

\* A start that takes every answer with a body for a manifest.
StartFailed_AnyStatus(has_key, has_client, reply) ==
  ~has_key \/ ~has_client \/ reply = "network_error"

StartFailed(has_key, has_client, reply) ==
  StartError(has_key, has_client, reply) # "ok"

IsTerminal(status) == status \in {"completed", "paused", "error"}

Running == {id \in DOMAIN drv : drv[id].pc # "done"}

Init ==
  /\ client = FALSE
  /\ master_key = None
  /\ nextId = 0
  /\ tasks = <<>>
  /\ drv = <<>>
  /\ events = <<>>
  /\ now = 0
  /\ cache = [a \in ArchiveIds |-> NoDir]
  /\ out = <<>>
  /\ faults = 0
  /\ ret = NoReturn
  /\ gcm = GcmIdle /\ san = SanIdle
  /\ plan = [starts |-> MaxTasks, par |-> 1, inputs |-> StartInputs]

\* login: the client is stored before the master key is asked for, so a
\* failure of the key request leaves a session without a key.
Login ==
  /\ \E reply \in {"invalid_credentials", "master_key_unavailable", "ok"} :
       /\ client' = (client \/ reply # "invalid_credentials")
       /\ master_key' = IF reply = "ok" THEN Some("mk") ELSE master_key
  /\ UNCHANGED <<nextId, tasks, drv, events, now, cache, out, faults, ret, gcm, san, plan>>

\* start_archive_download up to its return: the key, the manifest request,
\* the names, the cache directory, the registry record and the spawn.
StartArchiveDownload ==
  \E input \in plan.inputs, download_dir \in DownloadDirs,
     reply \in ManifestReplies :
    LET archive_id == input[1]
        file_index == input[2]
        parts == Manifest(archive_id, input[3])
        id == nextId + 1
        safe_name == sanitize_filename(DownloadName(parts, file_index))
        failed == StartFailed(master_key.some, client, reply)
    IN
    /\ plan.starts > 0
    \* The downloads running at a time are bounded, and an archive is not
    \* downloaded twice at once: its cache directory belongs to one download.
    /\ Cardinality(Running) < plan.par
    /\ \A other \in Running : drv[other].archive_id # archive_id
    /\ (~failed /\ input[3] \in ManifestKinds \ {"good"}) => faults < MaxFaults
    /\ faults' = IF ~failed /\ input[3] \in ManifestKinds \ {"good"}
                 THEN faults + 1 ELSE faults
    /\ ret' = [v |-> StartError(master_key.some, client, reply),
                requests |-> IF master_key.some /\ client THEN 1 ELSE 0]
    /\ IF failed
       THEN UNCHANGED <<nextId, tasks, drv, events, cache, plan>>
       ELSE /\ nextId' = id
            /\ plan' = [plan EXCEPT !.starts = @ - 1]
            /\ cache' = [cache EXCEPT ![archive_id].exists = TRUE]
            /\ tasks' = tasks @@ (id :>
                 [item |-> [id |-> id, archive_id |-> archive_id, name |-> safe_name,
                            downloaded |-> 0, status |-> "queued"],
                  cancel |-> FALSE])
            /\ events' = events @@ (id :> <<>>)
            /\ drv' = drv @@ (id :>
                 [DoneDrv EXCEPT !.pc = "spawned", !.archive_id = archive_id,
                                 !.download_dir = download_dir,
                                 !.file_index = file_index, !.m = parts,
                                 !.safe_name = safe_name])
    /\ UNCHANGED <<client, master_key, now, out, gcm, san>>

\* A pause that writes the status itself.
PauseDownload_SetsStatus ==
  \E id \in 1..ResumeTasks :
    /\ tasks' = IF id \in DOMAIN tasks
                THEN [tasks EXCEPT ![id].cancel = TRUE, ![id].item.status = "paused"]
                ELSE tasks
    /\ UNCHANGED <<client, master_key, nextId, drv, events, now, cache, out, faults, ret, gcm, san, plan>>

\* A pause_download that raises the flag of every task.
PauseDownload_AllTasks ==
  \E id \in 1..ResumeTasks :
    /\ tasks' = IF id \in DOMAIN tasks
                THEN [t \in DOMAIN tasks |-> [tasks[t] EXCEPT !.cancel = TRUE]]
                ELSE tasks
    /\ UNCHANGED <<client, master_key, nextId, drv, events, now, cache, out, faults, ret, gcm, san, plan>>

\* pause_download(id), for a known or an unknown id.
PauseDownload ==
  \E id \in 1..ResumeTasks :
    /\ tasks' = IF id \in DOMAIN tasks THEN [tasks EXCEPT ![id].cancel = TRUE] ELSE tasks
    /\ UNCHANGED <<client, master_key, nextId, drv, events, now, cache, out, faults, ret, gcm, san, plan>>

\* list_downloads(): under the registry lock, the item of every task.
list_downloads == [id \in DOMAIN tasks |-> tasks[id].item]

\* The process is killed at any point and started again: the registry, the
\* session and every driver are gone, the files stay.
Restart ==
  /\ DOMAIN tasks # {}
  /\ client' = FALSE
  /\ master_key' = None
  /\ nextId' = 0
  /\ tasks' = <<>>
  /\ drv' = <<>>
  /\ events' = <<>>
  /\ ret' = NoReturn
  /\ UNCHANGED <<now, cache, out, faults, gcm, san, plan>>

\* Time passes.
Tick ==
  /\ Running # {}
  /\ now < MaxTicks * TickSeconds
  /\ now' = now + TickSeconds
  /\ UNCHANGED <<client, master_key, nextId, tasks, drv, events, cache, out, faults, ret, gcm, san, plan>>

\* ---------------------------------------------------- the spawned driver
emit_progress(id, downloaded, status) ==
  events' = [events EXCEPT ![id] = Append(@, [downloaded |-> downloaded, status |-> status])]

\* The start of the spawned block: the locals before the part loop.
DriverBegin(id) ==
  /\ drv[id].pc = "spawned"
  /\ drv' = [drv EXCEPT ![id] =
       [@ EXCEPT !.pc = "loop", !.downloaded = 0, !.last_tick = now,
                 !.discord_ok = TRUE, !.next_direct_check = now,
                 !.parts_sorted = SortByIndex(drv[id].m.parts), !.k = 1]]
  /\ UNCHANGED <<client, master_key, nextId, tasks, events, now, cache, out, faults, ret, gcm, san, plan>>

\* The head of the part loop: the end of the loop, or the cancel check.
LoopHead(id) ==
  LET d == drv[id] IN
  /\ d.pc = "loop"
  /\ drv' = [drv EXCEPT ![id] =
       IF d.k > Len(d.parts_sorted) THEN [@ EXCEPT !.pc = "decrypt"]
       ELSE IF tasks[id].cancel THEN [@ EXCEPT !.pc = "emit", !.term = "paused"]
       ELSE [@ EXCEPT !.pc = "check_cache"]]
  /\ UNCHANGED <<client, master_key, nextId, tasks, events, now, cache, out, faults, ret, gcm, san, plan>>

\* The part the loop is at, and its file in the cache directory.
CurPart(d) == d.parts_sorted[d.k]
PartFile(d) == cache[d.archive_id].files[CurPart(d).index]

\* The results verify_part_hash can give for a file: a missing file is
\* Ok(false); a file that is there may fail to be read.
VerifyOutcomes(file, expected) ==
  IF file = NoFile THEN {"false"}
  ELSE {IF Sha256Hex(file) = expected THEN "true" ELSE "false", "err"}

\* A driver that trusts no cached file.
AcceptsCached_Never(r) == FALSE

\* Line 288: the cached file is reused only on Ok(true).
AcceptsCached(r) == r = "true"

\* Line 337: the fetched file is refused only on Ok(false).
RefusesFetched(r) == r = "false"

\* A driver without the back-off.
should_try_direct_Always(d) == TRUE

\* Line 295.
should_try_direct(d) == d.discord_ok \/ now >= d.next_direct_check

\* A driver that counts only the parts it has fetched.
Accept_CachedUncounted(d, how) ==
  [d EXCEPT !.downloaded = IF how = "cache" THEN @ ELSE @ + d.parts_sorted[d.k].size,
            !.accepted = Append(@, [index |-> d.parts_sorted[d.k].index, k |-> d.k,
                                     file |-> cache[d.archive_id].files[d.parts_sorted[d.k].index],
                                     how |-> how,
                                     cached |-> IF how = "cache"
                                                THEN cache[d.archive_id].files[d.parts_sorted[d.k].index]
                                                ELSE d.visit.cached,
                                     verdict |-> IF how = "cache" THEN "true"
                                                 ELSE d.visit.verdict,
                                     post |-> IF how = "cache" THEN "" ELSE d.visit.post,
                                     requests |-> IF how = "cache" THEN 0
                                                  ELSE d.visit.direct + d.visit.refresh
                                                       + d.visit.relay]),
            !.k = @ + 1, !.pc = "loop", !.visit = <<>>, !.stream = <<>>]

\* downloaded += part.size, with the part noted as accepted.
Accept(d, how) ==
  [d EXCEPT !.downloaded = @ + CurPart(d).size,
            !.accepted = Append(@, [index |-> CurPart(d).index, k |-> d.k,
                                     file |-> PartFile(d), how |-> how,
                                     cached |-> IF how = "cache" THEN PartFile(d)
                                                ELSE d.visit.cached,
                                     verdict |-> IF how = "cache" THEN "true"
                                                 ELSE d.visit.verdict,
                                     post |-> IF how = "cache" THEN "" ELSE d.visit.post,
                                     requests |-> IF how = "cache" THEN 0
                                                  ELSE d.visit.direct + d.visit.refresh
                                                       + d.visit.relay]),
            !.k = @ + 1, !.pc = "loop", !.visit = <<>>, !.stream = <<>>]

\* Lines 287-296: the cached part is verified; a part that is not reused is
\* about to be fetched, directly or through the relay.
CheckCache(id) ==
  LET d == drv[id] IN
  /\ d.pc = "check_cache"
  /\ \E r \in VerifyOutcomes(PartFile(d), CurPart(d).hash) :
       /\ r = "err" => faults < MaxFaults
       /\ faults' = IF r = "err" THEN faults + 1 ELSE faults
       /\ drv' = [drv EXCEPT ![id] =
            IF AcceptsCached(r) THEN Accept(d, "cache")
            ELSE [d EXCEPT !.pc = IF should_try_direct(d) THEN "direct_send" ELSE "relay_send",
                           !.direct_ok = FALSE, !.attempt = 1,
                           !.visit = [k |-> d.k, cached |-> PartFile(d), at |-> now,
                                      discord_ok |-> d.discord_ok,
                                      last_success |-> d.last_success,
                                      next_direct_check |-> d.next_direct_check,
                                      direct |-> 0, refresh |-> 0, relay |-> 0,
                                      refreshed_after |-> "", verdict |-> r,
                                      post |-> "", failed_at |-> -1,
                                      errs |-> <<>>, relay_failed |-> FALSE]]]
  /\ UNCHANGED <<client, master_key, nextId, tasks, events, now, cache, out, ret, gcm, san, plan>>

\* An exit of the driver with `error` (the emit and update follow).
Fail(d) == [d EXCEPT !.pc = "emit", !.term = "error", !.stream = <<>>]

\* Lines 329-334: the relay fetch has failed.
RelayFailed(d) == [Fail(d) EXCEPT !.visit.relay_failed = TRUE]

\* A driver whose direct success leaves the policy as it was.
OnDirectOk_KeepsPolicy(d) ==
  [d EXCEPT !.direct_ok = TRUE, !.pc = "verify", !.last_success = "direct"]

\* Lines 301-306 and 311-314: a direct attempt has succeeded.
OnDirectOk(d) ==
  [d EXCEPT !.direct_ok = TRUE, !.discord_ok = TRUE, !.pc = "verify",
            !.last_success = "direct"]

\* Line 329, Ok: the relay has delivered the part; the policy is left alone.
OnRelayOk(d) == [d EXCEPT !.pc = "verify", !.last_success = "relay"]

\* Lines 318-321: the direct attempt has failed.
DirectFailed(d) ==
  [d EXCEPT !.discord_ok = FALSE,
            !.next_direct_check = now + DIRECT_RETRY_INTERVAL,
            !.pc = "relay_send", !.stream = <<>>, !.visit.failed_at = now]

\* A driver that asks for a new URL after any failure of the first attempt.
AfterDirectError_AnyError(d, err) ==
  IF d.attempt = 1
  THEN [d EXCEPT !.pc = "refresh", !.stream = <<>>, !.visit.errs = Append(@, err)]
  ELSE DirectFailed([d EXCEPT !.visit.errs = Append(@, err)])

\* Line 308: only the first attempt's `expired` leads to the refresher.  The
\* errors of the visit's direct attempts are noted in order.
AfterDirectError(d, err) ==
  IF d.attempt = 1 /\ err = "expired"
  THEN [d EXCEPT !.pc = "refresh", !.stream = <<>>, !.visit.errs = Append(@, err)]
  ELSE DirectFailed([d EXCEPT !.visit.errs = Append(@, err)])

\* A fetcher that empties the whole cache directory before it writes.
TruncatePart_AllParts(d) ==
  [cache EXCEPT ![d.archive_id].files =
     [i \in DOMAIN @ |-> IF @[i] = NoFile /\ i # d.parts_sorted[d.k].index THEN NoFile ELSE <<>>]]

\* OpenOptions .create(true).write(true).truncate(true).open(dest).
TruncatePart(d) ==
  [cache EXCEPT ![d.archive_id].files[CurPart(d).index] = <<>>]

\* download_part_direct up to the body stream: the request and the open.
DirectSend(id) ==
  LET d == drv[id]
      sent == [d EXCEPT !.visit.direct = @ + 1]
  IN
  /\ d.pc = "direct_send"
  /\ \/ \E err \in {"expired", "status_500", "network_error"} :
          /\ faults < MaxFaults
          /\ faults' = faults + 1
          /\ drv' = [drv EXCEPT ![id] = AfterDirectError(sent, err)]
          /\ UNCHANGED cache
     \/ \E body \in {StoredPart(d.archive_id, CurPart(d).index),
                     CorruptBody(d.archive_id, CurPart(d).index)} :
          /\ body # StoredPart(d.archive_id, CurPart(d).index) => faults < MaxFaults
          /\ faults' = IF body # StoredPart(d.archive_id, CurPart(d).index)
                       THEN faults + 1 ELSE faults
          /\ IF cache[d.archive_id].exists
             THEN /\ cache' = TruncatePart(d)
                  /\ drv' = [drv EXCEPT ![id] =
                               [sent EXCEPT !.pc = "direct_stream", !.stream = body]]
             ELSE /\ UNCHANGED cache
                  /\ drv' = [drv EXCEPT ![id] = AfterDirectError(sent, "io_error")]
  /\ UNCHANGED <<client, master_key, nextId, tasks, events, now, out, ret, gcm, san, plan>>

\* One pass of the while loop of a fetcher: the stream ends, or a chunk (or
\* an error) arrives; the cancel flag is read when something arrives.
\* Gives the result and the file after the pass.
StreamResults(id, file, stream) ==
  IF stream = <<>> THEN {[res |-> "ok", file |-> file, fault |-> FALSE]}
  ELSE IF tasks[id].cancel THEN {[res |-> "cancelled", file |-> file, fault |-> FALSE]}
  ELSE {[res |-> "more", file |-> Append(file, Head(stream)), fault |-> FALSE],
        [res |-> "chunk_error", file |-> file, fault |-> TRUE]}

\* The body loop of download_part_direct, and lines 301-306 on Ok.
DirectStream(id) ==
  LET d == drv[id] IN
  /\ d.pc = "direct_stream"
  /\ \E r \in StreamResults(id, PartFile(d), d.stream) :
       /\ r.fault => faults < MaxFaults
       /\ faults' = IF r.fault THEN faults + 1 ELSE faults
       /\ cache' = [cache EXCEPT ![d.archive_id].files[CurPart(d).index] = r.file]
       /\ drv' = [drv EXCEPT ![id] =
            CASE r.res = "more" -> [d EXCEPT !.stream = Tail(@)]
              [] r.res = "ok" -> OnDirectOk(d)
              [] r.res = "cancelled" ->
                   [AfterDirectError(d, "cancelled") EXCEPT !.saw_cancelled = TRUE]
              [] OTHER -> AfterDirectError(d, r.res)]
  /\ UNCHANGED <<client, master_key, nextId, tasks, events, now, out, ret, gcm, san, plan>>

\* refresh_part_url, and the second direct attempt it leads to.
RefreshPartUrl(id) ==
  LET d == drv[id]
      sent == [d EXCEPT !.visit.refresh = @ + 1,
                        !.visit.refreshed_after = d.visit.errs[Len(d.visit.errs)]]
  IN
  /\ d.pc = "refresh"
  /\ \/ /\ faults < MaxFaults
        /\ faults' = faults + 1
        /\ drv' = [drv EXCEPT ![id] = DirectFailed(sent)]
     \/ /\ UNCHANGED faults
        /\ drv' = [drv EXCEPT ![id] = [sent EXCEPT !.attempt = 2, !.pc = "direct_send"]]
  /\ UNCHANGED <<client, master_key, nextId, tasks, events, now, cache, out, ret, gcm, san, plan>>

\* download_part_relay up to the body stream; lines 329-334 on Err.
RelaySend(id) ==
  LET d == drv[id]
      sent == [d EXCEPT !.visit.relay = @ + 1]
  IN
  /\ d.pc = "relay_send"
  /\ \/ /\ faults < MaxFaults
        /\ faults' = faults + 1
        /\ drv' = [drv EXCEPT ![id] = RelayFailed(sent)]
        /\ UNCHANGED cache
     \/ \E body \in {StoredPart(d.archive_id, CurPart(d).index),
                     CorruptBody(d.archive_id, CurPart(d).index)} :
          /\ body # StoredPart(d.archive_id, CurPart(d).index) => faults < MaxFaults
          /\ faults' = IF body # StoredPart(d.archive_id, CurPart(d).index)
                       THEN faults + 1 ELSE faults
          /\ IF cache[d.archive_id].exists
             THEN /\ cache' = TruncatePart(d)
                  /\ drv' = [drv EXCEPT ![id] =
                               [sent EXCEPT !.pc = "relay_stream", !.stream = body]]
             ELSE /\ UNCHANGED cache
                  /\ drv' = [drv EXCEPT ![id] = RelayFailed(sent)]
  /\ UNCHANGED <<client, master_key, nextId, tasks, events, now, out, ret, gcm, san, plan>>

\* The body loop of download_part_relay.
RelayStream(id) ==
  LET d == drv[id] IN
  /\ d.pc = "relay_stream"
  /\ \E r \in StreamResults(id, PartFile(d), d.stream) :
       /\ r.fault => faults < MaxFaults
       /\ faults' = IF r.fault THEN faults + 1 ELSE faults
       /\ cache' = [cache EXCEPT ![d.archive_id].files[CurPart(d).index] = r.file]
       /\ drv' = [drv EXCEPT ![id] =
            CASE r.res = "more" -> [d EXCEPT !.stream = Tail(@)]
              [] r.res = "ok" -> OnRelayOk(d)
              [] r.res = "cancelled" -> [RelayFailed(d) EXCEPT !.saw_cancelled = TRUE]
              [] OTHER -> RelayFailed(d)]
  /\ UNCHANGED <<client, master_key, nextId, tasks, events, now, out, ret, gcm, san, plan>>

\* Lines 337-352: the fetched part is verified and accepted, and a progress
\* event is due when 500 ms have passed since the last one.  The clock of the
\* model is coarser than that: within one reading of it either may be the case.
VerifyFetched(id) ==
  LET d == drv[id] IN
  /\ d.pc = "verify"
  /\ \E r \in VerifyOutcomes(PartFile(d), CurPart(d).hash) :
       /\ r = "err" => faults < MaxFaults
       /\ faults' = IF r = "err" THEN faults + 1 ELSE faults
       /\ IF RefusesFetched(r)
          THEN /\ drv' = [drv EXCEPT ![id] = Fail(d)]
               /\ UNCHANGED events
          ELSE \E due \in {TRUE, now > d.last_tick} :
                 /\ drv' = [drv EXCEPT ![id] =
                      [Accept([d EXCEPT !.visit.post = r], "fetch")
                         EXCEPT !.last_tick = IF due THEN now ELSE @]]
                 /\ IF due
                    THEN emit_progress(id, d.downloaded + CurPart(d).size, "downloading")
                    ELSE UNCHANGED events
  /\ UNCHANGED <<client, master_key, nextId, tasks, now, cache, out, ret, gcm, san, plan>>

\* ------------------------------------------------------------ decrypt_parts
ExtDownload == <<"d","o","w","n","l","o","a","d">>
ExtZip == <<"z","i","p">>

\* Path::new(&download_dir).join(&safe_name)
DestPath(d) == <<d.download_dir, d.safe_name>>

\* Lines 448-449.
DecryptTarget(output_path, file_index) ==
  LET tmp_out == <<output_path[1], with_extension(output_path[2], ExtDownload)>>
  IN IF file_index.some THEN <<tmp_out[1], with_extension(tmp_out[2], ExtZip)>> ELSE tmp_out

WriteFile(fs, path, bytes) == (path :> bytes) @@ fs

\* write_all through a handle at offset off: the bytes go to the handle's
\* position, after a gap of zero bytes when the file has become shorter.
WriteAt(content, off, data) ==
  LET padded == IF Len(content) < off
                THEN content \o [i \in 1..(off - Len(content)) |-> 0] ELSE content
      len == IF off + Len(data) > Len(padded) THEN off + Len(data) ELSE Len(padded)
  IN [i \in 1..len |-> IF i > off /\ i <= off + Len(data) THEN data[i - off] ELSE padded[i]]

\* The drivers' open output handles after a path is unlinked: a handle on it
\* keeps a file no path names.
Unlinked(ds, path) ==
  [i \in DOMAIN ds |->
     IF ds[i].fh.linked /\ ds[i].fh.path = path THEN [ds[i] EXCEPT !.fh.linked = FALSE]
     ELSE ds[i]]

\* The handles after rename(from, to): the file at `to` loses its name, the
\* file at `from` is now at `to`.
Renamed(ds, from, to) ==
  IF from = to THEN ds
  ELSE [i \in DOMAIN ds |->
          IF ds[i].fh.linked /\ ds[i].fh.path = to THEN [ds[i] EXCEPT !.fh.linked = FALSE]
          ELSE IF ds[i].fh.linked /\ ds[i].fh.path = from THEN [ds[i] EXCEPT !.fh.path = to]
          ELSE ds[i]]
RemoveFile(fs, path) == [q \in DOMAIN fs \ {path} |-> fs[q]]

\* The entries the container parser finds in a plaintext, or a parse failure.
ZipEntries(bytes) ==
  IF bytes = <<>> \/ bytes[1] # ZipMagic THEN [ok |-> FALSE, entries |-> <<>>]
  ELSE [ok |-> TRUE,
        entries |-> [i \in 1..(Len(bytes) - 1) |->
                       [name |-> EntryName(bytes[i + 1]), is_dir |-> bytes[i + 1] = DirByte,
                        data |-> IF bytes[i + 1] = EmptyByte THEN <<>>
                                 ELSE <<bytes[i + 1]>>]]]

FileN(n) == <<"f","i","l","e","_">> \o <<IF n = 1 THEN "1" ELSE IF n = 2 THEN "2" ELSE "3">>

\* extract_zip_entry: the result and the download directory after it.
extract_zip_entry(fs, zip_path, output_path, parts, file_index) ==
  LET target_name ==
        IF parts.files.some /\ file_index + 1 <= Len(parts.files.v)
           /\ parts.files.v[file_index + 1].originalName.some
        THEN parts.files.v[file_index + 1].originalName.v
        ELSE FileN(file_index + 1)
      entry_name == [i \in 1..Len(target_name) |->
                       IF target_name[i] \in {"\\", "/"} THEN "_" ELSE target_name[i]]
      archive == IF zip_path \in DOMAIN fs THEN ZipEntries(fs[zip_path])
                 ELSE [ok |-> FALSE, entries |-> <<>>]
      named == {i \in 1..Len(archive.entries) : archive.entries[i].name = entry_name}
      pos == IF named # {} THEN CHOOSE i \in named : \A j \in named : i <= j
             ELSE file_index + 1
  IN IF ~archive.ok \/ pos > Len(archive.entries) THEN [ok |-> FALSE, fs |-> fs]
     ELSE IF archive.entries[pos].is_dir THEN [ok |-> FALSE, fs |-> fs]
     ELSE IF zip_path = output_path
          \* The output is the container itself: it is truncated under the
          \* reader, and only an entry without bytes can still be copied.
          THEN [ok |-> archive.entries[pos].data = <<>>, fs |-> WriteFile(fs, output_path, <<>>)]
     ELSE [ok |-> TRUE, fs |-> WriteFile(fs, output_path, archive.entries[pos].data)]

\* Lines 434-466: the manifest's iv and tag are checked, the target is
\* opened (truncated), and the cipher state is set up.
DecryptOpen(id) ==
  LET d == drv[id] IN
  /\ d.pc = "decrypt"
  /\ IF d.m.iv_len # IvLen \/ d.m.authTag.len # TagLen
     THEN /\ drv' = [drv EXCEPT ![id] =
               [Fail(d) EXCEPT !.decrypt_result =
                  IF d.m.iv_len # IvLen THEN "invalid_iv" ELSE "invalid_auth_tag"]]
          /\ UNCHANGED out
     ELSE /\ out' = WriteFile(out, DecryptTarget(DestPath(d), d.file_index), <<>>)
          /\ drv' = [drv EXCEPT ![id] =
               [d EXCEPT !.pc = "decrypt_part", !.dk = 1, !.ghash = GhashNew,
                         !.total_cipher_len = 0, !.out_before = out,
                         !.fh = [linked |-> TRUE, off |-> 0,
                                 path |-> DecryptTarget(DestPath(d), d.file_index)],
                         !.touched = @ \cup {DecryptTarget(DestPath(d), d.file_index)}]]
  /\ UNCHANGED <<client, master_key, nextId, tasks, events, now, cache, faults, ret, gcm, san, plan>>

\* Lines 469-484 for one part: the part file is read, hashed into GHASH,
\* decrypted and written.  (The manifest's parts are sorted again, line 446.)
DecryptPart(id) ==
  LET d == drv[id]
      sorted == SortByIndex(d.m.parts)
      target == DecryptTarget(DestPath(d), d.file_index)
      file == cache[d.archive_id].files[sorted[d.dk].index]
  IN
  /\ d.pc = "decrypt_part"
  /\ d.dk <= Len(sorted)
  /\ \/ /\ file # NoFile
        /\ UNCHANGED faults
        /\ out' = IF d.fh.linked
                  THEN WriteFile(out, d.fh.path,
                                 WriteAt(out[d.fh.path], d.fh.off,
                                         ApplyKeystream(file, d.total_cipher_len)))
                  ELSE out
        /\ drv' = [drv EXCEPT ![id] =
             [d EXCEPT !.dk = @ + 1, !.ghash = ghash_update(@, file),
                       !.total_cipher_len = @ + Len(file),
                       !.fh.off = @ + Len(file),
                       !.touched = IF d.fh.linked THEN @ \cup {d.fh.path} ELSE @]]
     \/ /\ file = NoFile \/ faults < MaxFaults
        /\ faults' = IF file = NoFile THEN faults ELSE faults + 1
        /\ UNCHANGED out
        /\ drv' = [drv EXCEPT ![id] = [Fail(d) EXCEPT !.decrypt_result = "io_error"]]
  /\ UNCHANGED <<client, master_key, nextId, tasks, events, now, cache, ret, gcm, san, plan>>

\* A decryptor that does not compare the tag.
TagMatches_Always(expected, auth_tag) == TRUE

\* Line 493.
TagMatches(expected, auth_tag) == expected = auth_tag

\* Lines 486-504: the tag is compared; the plaintext is removed, or
\* installed by rename or by extracting one entry.
DecryptFinish(id) ==
  LET d == drv[id]
      sorted == SortByIndex(d.m.parts)
      output_path == DestPath(d)
      target == DecryptTarget(output_path, d.file_index)
      expected == ComputedTag(ghash_finalize(d.ghash, d.total_cipher_len))
      extracted == extract_zip_entry(out, target, output_path, d.m, d.file_index.v)
  IN
  /\ d.pc = "decrypt_part"
  /\ d.dk > Len(sorted)
  /\ IF ~TagMatches(expected, d.m.authTag.tag)
     THEN /\ out' = RemoveFile(out, target)
          /\ drv' = [Unlinked(drv, target) EXCEPT ![id] =
               [Fail(d) EXCEPT !.decrypt_result = "auth_tag_mismatch",
                               !.touched = @ \cup {target}]]
     ELSE IF d.file_index.some
     THEN IF extracted.ok
          THEN /\ out' = RemoveFile(extracted.fs, target)
               /\ drv' = [Unlinked(drv, target) EXCEPT ![id] =
                    [d EXCEPT !.pc = "cleanup", !.decrypt_result = "ok",
                              !.touched = @ \cup {target, output_path}]]
          ELSE /\ out' = extracted.fs
               /\ drv' = [drv EXCEPT ![id] =
                    [Fail(d) EXCEPT !.decrypt_result = "extract_error",
                                    !.touched = @ \cup (DOMAIN extracted.fs \ DOMAIN out)
                                                  \cup {q \in DOMAIN out : extracted.fs[q] # out[q]}]]
     ELSE IF target \notin DOMAIN out
     THEN /\ UNCHANGED out
          /\ drv' = [drv EXCEPT ![id] = [Fail(d) EXCEPT !.decrypt_result = "io_error"]]
     ELSE /\ out' = WriteFile(RemoveFile(out, target), output_path, out[target])
          /\ drv' = [Renamed(drv, target, output_path) EXCEPT ![id] =
               [d EXCEPT !.pc = "cleanup", !.decrypt_result = "ok",
                         !.touched = @ \cup {target, output_path}]]
  /\ UNCHANGED <<client, master_key, nextId, tasks, events, now, cache, faults, ret, gcm, san, plan>>

\* Line 362: let _ = remove_dir_all(&temp_dir); a failure is ignored.
RemoveCache(id) ==
  LET d == drv[id] IN
  /\ d.pc = "cleanup"
  /\ \/ /\ cache' = [cache EXCEPT ![d.archive_id] = NoDir]
        /\ UNCHANGED faults
     \/ /\ faults < MaxFaults
        /\ faults' = faults + 1
        /\ UNCHANGED cache
  /\ drv' = [drv EXCEPT ![id] = [d EXCEPT !.pc = "emit", !.term = "completed"]]
  /\ UNCHANGED <<client, master_key, nextId, tasks, events, now, out, ret, gcm, san, plan>>

\* The emit_progress of a terminal status (lines 282, 330, 339, 356, 363).
EmitTerminal(id) ==
  LET d == drv[id] IN
  /\ d.pc = "emit"
  /\ emit_progress(id, d.downloaded, d.term)
  /\ drv' = [drv EXCEPT ![id] = [d EXCEPT !.pc = "update_status"]]
  /\ UNCHANGED <<client, master_key, nextId, tasks, now, cache, out, faults, ret, gcm, san, plan>>

\* A driver whose pause and error exits lack the `return`.
update_status_NoReturn(id) ==
  LET d == drv[id] IN
  /\ d.pc = "update_status"
  /\ tasks' = IF id \in DOMAIN tasks THEN [tasks EXCEPT ![id].item.status = d.term] ELSE tasks
  /\ drv' = [drv EXCEPT ![id] = IF d.term = "completed" THEN DoneDrv
                                 ELSE [d EXCEPT !.pc = "loop", !.k = @ + 1]]
  /\ UNCHANGED <<client, master_key, nextId, events, now, cache, out, faults, ret, gcm, san, plan>>

\* update_status, after which the spawned block returns.
update_status(id) ==
  LET d == drv[id] IN
  /\ d.pc = "update_status"
  /\ tasks' = IF id \in DOMAIN tasks THEN [tasks EXCEPT ![id].item.status = d.term] ELSE tasks
  /\ drv' = [drv EXCEPT ![id] = DoneDrv]
  /\ UNCHANGED <<client, master_key, nextId, events, now, cache, out, faults, ret, gcm, san, plan>>

DoDriverBegin == \E id \in DOMAIN drv : DriverBegin(id)
DoLoopHead == \E id \in DOMAIN drv : LoopHead(id)
DoCheckCache == \E id \in DOMAIN drv : CheckCache(id)
DoDirectSend == \E id \in DOMAIN drv : DirectSend(id)
DoDirectStream == \E id \in DOMAIN drv : DirectStream(id)
DoRefreshPartUrl == \E id \in DOMAIN drv : RefreshPartUrl(id)
DoRelaySend == \E id \in DOMAIN drv : RelaySend(id)
DoRelayStream == \E id \in DOMAIN drv : RelayStream(id)
DoVerifyFetched == \E id \in DOMAIN drv : VerifyFetched(id)
DoDecryptOpen == \E id \in DOMAIN drv : DecryptOpen(id)
DoDecryptPart == \E id \in DOMAIN drv : DecryptPart(id)
DoDecryptFinish == \E id \in DOMAIN drv : DecryptFinish(id)
DoRemoveCache == \E id \in DOMAIN drv : RemoveCache(id)
DoEmitTerminal == \E id \in DOMAIN drv : EmitTerminal(id)
DoUpdateStatus == \E id \in DOMAIN drv : update_status(id)

Next ==
  \/ Login
  \/ StartArchiveDownload
  \/ PauseDownload
  \/ Restart
  \/ Tick
  \/ DoDriverBegin
  \/ DoLoopHead
  \/ DoCheckCache
  \/ DoDirectSend
  \/ DoDirectStream
  \/ DoRefreshPartUrl
  \/ DoRelaySend
  \/ DoRelayStream
  \/ DoVerifyFetched
  \/ DoDecryptOpen
  \/ DoDecryptPart
  \/ DoDecryptFinish
  \/ DoRemoveCache
  \/ DoEmitTerminal
  \/ DoUpdateStatus

Spec == Init /\ [][Next]_vars

\* An interrupted download of archive "A" and the download that resumes it.
ResumeInit ==
  /\ client = FALSE /\ master_key = None /\ nextId = 0 /\ tasks = <<>> /\ drv = <<>>
  /\ events = <<>> /\ now = 0 /\ cache = [a \in ArchiveIds |-> NoDir] /\ out = <<>>
  /\ faults = 0 /\ ret = NoReturn /\ gcm = GcmIdle /\ san = SanIdle
  /\ plan = [starts |-> ResumeTasks, par |-> 1, inputs |-> {<<"A", None, "good">>}]

SpecResume == ResumeInit /\ [][Next]_vars

GcmSpecInit ==
  /\ client = FALSE /\ master_key = None /\ nextId = 0 /\ tasks = <<>> /\ drv = <<>>
  /\ events = <<>> /\ now = 0 /\ cache = [a \in ArchiveIds |-> NoDir] /\ out = <<>>
  /\ faults = 0 /\ ret = NoReturn /\ plan = [starts |-> 0, par |-> 0, inputs |-> {}]
  /\ san = SanIdle
  /\ GcmInit

SpecGcm == GcmSpecInit /\ [][GcmNext]_vars

\* Two downloads at a time, of archives "A" and "B", whose names f.t and f.u
\* differ in the extension only, in an environment without failures,
\* pauses and kills: every request succeeds at once.
PairInit ==
  /\ client = FALSE /\ master_key = None /\ nextId = 0
  /\ tasks = <<>> /\ drv = <<>> /\ events = <<>>
  /\ now = 0 /\ cache = [a \in ArchiveIds |-> NoDir] /\ out = <<>>
  /\ faults = MaxFaults /\ ret = NoReturn /\ gcm = GcmIdle /\ san = SanIdle
  /\ plan = [starts |-> PairTasks, par |-> PairTasks,
             inputs |-> {<<"A", None, "good">>, <<"B", None, "stem">>}]

\* The steps such an environment leaves enabled.
PairNext ==
  \/ Login
  \/ StartArchiveDownload
  \/ DoDriverBegin
  \/ DoLoopHead
  \/ DoCheckCache
  \/ DoDirectSend
  \/ DoDirectStream
  \/ DoVerifyFetched
  \/ DoDecryptOpen
  \/ DoDecryptPart
  \/ DoDecryptFinish
  \/ DoRemoveCache
  \/ DoEmitTerminal
  \/ DoUpdateStatus

SpecPair == PairInit /\ [][PairNext]_vars

\* One download at a time whose output name ends in .download, or in .zip
\* with a file_index, next to downloads of the other names.
NamesInit ==
  /\ client = FALSE /\ master_key = None /\ nextId = 0
  /\ tasks = <<>> /\ drv = <<>> /\ events = <<>>
  /\ now = 0 /\ cache = [a \in ArchiveIds |-> NoDir] /\ out = <<>>
  /\ faults = 0 /\ ret = NoReturn /\ gcm = GcmIdle /\ san = SanIdle
  /\ plan = [starts |-> MaxTasks, par |-> 1,
             inputs |-> {<<"A", None, "dot_download">>, <<"B", Some(0), "dot_zip">>,
                         <<"C", Some(0), "dot_zip">>, <<"B", Some(0), "good">>,
                         <<"B", Some(1), "good">>, <<"C", Some(0), "good">>}]

SpecNames == NamesInit /\ [][Next]_vars

SanSpecInit ==
  /\ client = FALSE /\ master_key = None /\ nextId = 0 /\ tasks = <<>> /\ drv = <<>>
  /\ events = <<>> /\ now = 0 /\ cache = [a \in ArchiveIds |-> NoDir] /\ out = <<>>
  /\ faults = 0 /\ ret = NoReturn /\ plan = [starts |-> 0, par |-> 0, inputs |-> {}]
  /\ gcm = GcmIdle
  /\ SanInit

SpecSan == SanSpecInit /\ [][SanNext]_vars

\* The spawned block is a task of the async runtime: while the process
\* lives it is scheduled again whenever it can take a step, and every
\* request it awaits comes back with one of the outcomes above.
DriverStep ==
  \/ DoDriverBegin \/ DoLoopHead \/ DoCheckCache \/ DoDirectSend \/ DoDirectStream
  \/ DoRefreshPartUrl \/ DoRelaySend \/ DoRelayStream \/ DoVerifyFetched
  \/ DoDecryptOpen \/ DoDecryptPart \/ DoDecryptFinish \/ DoRemoveCache
  \/ DoEmitTerminal \/ DoUpdateStatus

\* The start of the fair runs: one download of archive "A", whole.
LiveInit ==
  /\ client = FALSE /\ master_key = None /\ nextId = 0
  /\ tasks = <<>> /\ drv = <<>> /\ events = <<>>
  /\ now = 0 /\ cache = [a \in ArchiveIds |-> NoDir] /\ out = <<>>
  /\ faults = 0 /\ ret = NoReturn /\ gcm = GcmIdle /\ san = SanIdle
  /\ plan = [starts |-> MaxTasks, par |-> 1, inputs |-> {<<"A", None, "good">>}]

SpecLive == LiveInit /\ [][Next]_vars /\ WF_vars(DriverStep)

\* ================================================================ claims
\* The positions of the terminal events among the events of a download.
TerminalEvents(id) == {i \in 1..Len(events[id]) : IsTerminal(events[id][i].status)}

\* The driver is between the decision to fetch a part and its acceptance.
InVisit(d) ==
  d.pc \in {"direct_send", "direct_stream", "refresh", "relay_send", "relay_stream", "verify"}

\* A part file as the manifest describes it: there, of the listed length and
\* of the listed hash.
SpecValid(file, part) ==
  /\ file # NoFile
  /\ Len(file) = part.size
  /\ Sha256Hex(file) = part.hash

\* The concatenation of the cached part files in ascending index order.
CachedCipher(d) ==
  LET sorted == SortByIndex(d.m.parts)
  IN Concat([i \in 1..Len(sorted) |->
               IF cache[d.archive_id].files[sorted[i].index] = NoFile THEN <<>>
               ELSE cache[d.archive_id].files[sorted[i].index]])

\* C1: once a fetcher has observed the cancel flag and returned `cancelled`,
\* the driver starts no decrypt phase and the only terminal status it emits
\* is `paused`.
C1_CancelledEndsPaused ==
  \A id \in DOMAIN drv :
    drv[id].saw_cancelled =>
      /\ drv[id].pc \notin {"decrypt", "decrypt_part", "cleanup"}
      /\ drv[id].pc \in {"emit", "update_status"} => drv[id].term = "paused"
      /\ \A i \in TerminalEvents(id) : events[id][i].status = "paused"

\* At most one terminal event, nothing after it, and none missing once the
\* driver is past its emit.
AtMostOneTerminalLast ==
  \A id \in DOMAIN drv :
    /\ Cardinality(TerminalEvents(id)) <= 1
    /\ TerminalEvents(id) \subseteq {Len(events[id])}
    /\ (drv[id].pc \in {"update_status", "done"}) <=> (TerminalEvents(id) # {})

\* C2: a download has at most one terminal event and nothing follows it,
\* and every spawned download whose process is not killed comes to have
\* exactly one.
C2_OneTerminalEvent ==
  /\ []AtMostOneTerminalLast
  /\ \A id \in 1..MaxTasks :
       [](id \in DOMAIN drv =>
            <>(id \notin DOMAIN drv \/ Cardinality(TerminalEvents(id)) = 1))

C2_Witness ==
  \E id \in DOMAIN drv :
    /\ drv[id].pc = "done"
    /\ Len(events[id]) = 3
    /\ events[id][1].status = "downloading"
    /\ events[id][3].status = "completed"

\* C3: every part the driver has accepted has a file of the length and of
\* the SHA-256 the manifest lists for it.
C3_AcceptedPartsAreValid ==
  \A id \in DOMAIN drv :
    \A i \in 1..Len(drv[id].accepted) :
      SpecValid(drv[id].accepted[i].file, drv[id].parts_sorted[drv[id].accepted[i].k])

\* C4: over a stop and a restart with the same arguments, a part whose
\* cached file was read and found valid at its visit is requested from no
\* one, a part whose cached file was not is fetched again, and a completed
\* run leaves the plaintext of the archive at the destination.
C4_ResumeReusesValidParts ==
  \A id \in DOMAIN drv :
    LET d == drv[id] IN
    /\ \A i \in 1..Len(d.accepted) :
         LET a == d.accepted[i]
             valid == SpecValid(a.cached, d.parts_sorted[a.k]) /\ a.verdict # "err"
         IN /\ valid => a.requests = 0 /\ a.how = "cache" /\ a.file = a.cached
            /\ ~valid => a.requests >= 1 /\ a.how = "fetch"
    /\ InVisit(d) => ~(SpecValid(d.visit.cached, CurPart(d)) /\ d.visit.verdict # "err")
    /\ (d.pc \in {"emit", "update_status"} /\ d.term = "completed" /\ ~d.file_index.some)
         => /\ DestPath(d) \in DOMAIN out
            /\ out[DestPath(d)] = PlainOf(d.archive_id)

C4_Witness ==
  \E id \in DOMAIN drv :
    /\ plan.starts = 0
    /\ drv[id].pc = "emit"
    /\ drv[id].term = "completed"
    /\ Len(drv[id].accepted) = 2
    /\ drv[id].accepted[1].how = "cache"
    /\ drv[id].accepted[2].how = "fetch"
    /\ drv[id].accepted[2].cached = <<>>

\* C5: the plaintext is installed only when the tag computed over the
\* cached parts in index order equals the manifest's tag; when it differs
\* decrypt_parts fails with auth_tag_mismatch, the driver ends with `error`,
\* the temporary file is gone and nothing has been put at the destination.
C5_TagAuthenticity ==
  \A id \in DOMAIN drv :
    LET d == drv[id]
        target == DecryptTarget(DestPath(d), d.file_index)
    IN d.pc # "done" =>
       /\ d.pc = "cleanup" => GcmTag(CachedCipher(d)) = d.m.authTag.tag
       /\ d.decrypt_result = "extract_error" => GcmTag(CachedCipher(d)) = d.m.authTag.tag
       /\ (d.term = "completed" /\ d.pc \in {"emit", "update_status"}) => d.decrypt_result = "ok"
       /\ d.decrypt_result = "auth_tag_mismatch" =>
            /\ d.pc \in {"emit", "update_status"}
            /\ d.term = "error"
            /\ GcmTag(CachedCipher(d)) # d.m.authTag.tag
            /\ target \notin DOMAIN out
            /\ DestPath(d) \in DOMAIN out =>
                 /\ DestPath(d) \in DOMAIN d.out_before
                 /\ out[DestPath(d)] = d.out_before[DestPath(d)]

C5_Witness ==
  \E id \in DOMAIN drv :
    /\ drv[id].decrypt_result = "auth_tag_mismatch"
    /\ drv[id].pc = "update_status"
    /\ drv[id].m.authTag.tag = GcmTag(CipherOf(drv[id].archive_id))
    /\ DestPath(drv[id]) \notin DOMAIN out

\* The 16-byte blocks GHASH is fed for a whole ciphertext: its blocks, the
\* last one zero-padded, then the length block.
ExpectedBlocks(c) ==
  LET n == Len(c)
      nb == (n + BlockLen - 1) \div BlockLen
      bits == n * 8
  IN [j \in 1..nb |->
        [i \in 1..BlockLen |->
           IF (j - 1) * BlockLen + i <= n THEN c[(j - 1) * BlockLen + i] ELSE 0]]
     \o << [i \in 1..BlockLen |->
              IF i = BlockLen THEN bits % 256
              ELSE IF i = BlockLen - 1 THEN (bits \div 256) % 256
              ELSE 0] >>

\* C6: however the ciphertext is cut into parts and however each part is
\* cut into read windows, the blocks fed to GHASH, the tag and the plaintext
\* are those of the unsplit ciphertext, and the residual stays under a block.
C6_PartitionIndependence ==
  LET c == Cipher(SumSizes([i \in 1..Len(gcm.sizes) |-> [size |-> gcm.sizes[i]]]))
  IN /\ Len(gcm.g.rem) < BlockLen
     /\ gcm.phase = "done" =>
          /\ gcm.g.blocks = ExpectedBlocks(c)
          /\ ComputedTag(gcm.g) = GcmTag(c)
          /\ gcm.plain = ApplyKeystream(c, 0)

C6_Witness ==
  /\ gcm.phase = "done"
  /\ gcm.sizes = <<7, 0, 13>>

C8_DirectBackoff ==
  \A id \in DOMAIN drv :
    LET d == drv[id] IN
    InVisit(d) =>
      /\ d.visit.failed_at # -1 =>
           /\ d.visit.direct >= 1
           /\ d.pc \in {"relay_send", "relay_stream", "verify"}
           /\ ~d.discord_ok
           /\ d.next_direct_check = d.visit.failed_at + DIRECT_RETRY_INTERVAL
      /\ (d.visit.failed_at = -1 /\ d.visit.direct >= 1)
           => d.pc \in {"direct_send", "direct_stream", "refresh", "verify"}
      /\ (~d.visit.discord_ok /\ d.visit.at < d.visit.next_direct_check) =>
           /\ d.visit.direct = 0
           /\ d.visit.refresh = 0
           /\ d.pc \in {"relay_send", "relay_stream", "verify"}
      /\ (d.visit.discord_ok \/ d.visit.at >= d.visit.next_direct_check) =>
           (d.pc = "direct_send" \/ d.visit.direct >= 1)

C8_Witness ==
  \E id \in DOMAIN drv :
    /\ drv[id].pc = "verify"
    /\ drv[id].k = 2
    /\ ~drv[id].visit.discord_ok
    /\ drv[id].visit.at < drv[id].visit.next_direct_check
    /\ drv[id].visit.relay = 1
    /\ drv[id].visit.direct = 0

\* C9: the cache directory is removed only after a successful decryption
\* and before `completed` is emitted; at an exit with `paused` or `error`
\* the directory is there and every accepted part file is as it was accepted.
C9_CacheLifetime ==
  \A id \in DOMAIN drv :
    LET d == drv[id] IN
    d.pc # "done" =>
      /\ ~cache[d.archive_id].exists =>
           /\ d.pc \in {"emit", "update_status"}
           /\ d.term = "completed"
           /\ d.decrypt_result = "ok"
      /\ d.pc = "cleanup" => (TerminalEvents(id) = {} /\ d.decrypt_result = "ok")
      /\ (d.pc \in {"emit", "update_status"} /\ d.term \in {"paused", "error"}) =>
           /\ cache[d.archive_id].exists
           /\ \A i \in 1..Len(d.accepted) :
                cache[d.archive_id].files[d.accepted[i].index] = d.accepted[i].file

C9_Witness ==
  \E id \in DOMAIN drv :
    /\ drv[id].pc = "update_status"
    /\ drv[id].term = "error"
    /\ drv[id].decrypt_result = "extract_error"
    /\ Len(drv[id].accepted) = 2

\* C10: the progress counter of the events of a run never decreases, never
\* passes the sum of the part sizes, is the sum of the sizes of the distinct
\* parts accepted so far, and is that sum at `completed`.
C10_ProgressCounter ==
  \A id \in DOMAIN drv :
    LET d == drv[id]
        es == events[id]
    IN d.pc # "done" =>
       /\ \A i \in 1..Len(es) :
            /\ es[i].downloaded <= SumSizes(d.m.parts)
            /\ i < Len(es) => es[i].downloaded <= es[i + 1].downloaded
            /\ es[i].status = "completed" => es[i].downloaded = SumSizes(d.m.parts)
       /\ \A i \in 1..Len(d.accepted) : d.accepted[i].k = i
       /\ d.downloaded =
            SumSizes([i \in 1..Len(d.accepted) |-> d.parts_sorted[d.accepted[i].k]])

C10_Witness ==
  \E id \in DOMAIN drv :
    /\ plan.starts = 0
    /\ drv[id].pc = "update_status"
    /\ drv[id].term = "completed"
    /\ Len(events[id]) = 2
    /\ events[id][1].status = "downloading"
    /\ events[id][1].downloaded > drv[id].parts_sorted[2].size
    /\ drv[id].accepted[1].how = "cache"
    /\ drv[id].accepted[2].how = "fetch"

\* The properties of a sanitized name.
SafeName(v) ==
  /\ v # <<>>
  /\ ByteLen(v) <= MaxNameBytes
  /\ \A i \in 1..Len(v) : v[i] \notin InvalidChars
  /\ v[Len(v)] \notin {".", " "}
  /\ \A r \in ReservedNames :
       to_uppercase(v) # r /\ ~StartsWith(to_uppercase(v), r \o <<".">>)

\* C11: every call of sanitize_filename returns, and returns a name that is
\* non-empty, of at most 255 bytes, free of the invalid characters, not
\* ending in a dot or a space, and not a reserved device name.
C11_SanitizerTotal ==
  san.phase \in {"once", "twice"} => (san.first.ok /\ SafeName(san.first.v))

\* C12: sanitize_filename applied to its own result returns that result.
C12_SanitizerIdempotent ==
  /\ san.phase = "once" => san.first.ok
  /\ san.phase = "twice" => (san.second.ok /\ san.second.v = san.first.v)

\* C13: two running downloads of distinct archives and distinct output
\* paths have created, written, renamed or deleted no common path, and a
\* download whose decryption has succeeded has its own archive's plaintext
\* at its output path.
C13_ConcurrentDownloadsIsolated ==
  \A i \in DOMAIN drv : \A j \in DOMAIN drv :
    (/\ i # j
     /\ drv[i].pc # "done" /\ drv[j].pc # "done"
     /\ drv[i].archive_id # drv[j].archive_id
     /\ DestPath(drv[i]) # DestPath(drv[j]))
    => /\ drv[i].touched \cap drv[j].touched = {}
       /\ (drv[i].decrypt_result = "ok" /\ ~drv[i].file_index.some)
            => /\ DestPath(drv[i]) \in DOMAIN out
               /\ out[DestPath(drv[i])] = PlainOf(drv[i].archive_id)

\* The status set, and a record's status against its driver: queued while
\* the driver runs, terminal once it has returned.
StatusClosed ==
  \A id \in DOMAIN tasks :
    /\ tasks[id].item.status \in {"queued", "downloading", "paused", "completed", "error"}
    /\ tasks[id].item.id = id
    /\ IsTerminal(tasks[id].item.status) <=> drv[id].pc = "done"

\* A step of a living process: a record of terminal status stays as it is,
\* a record that is not terminal keeps its status or takes a terminal one,
\* and a new record has an id no record had and the status queued.
RegistryStep ==
  tasks' # <<>> =>
    /\ DOMAIN tasks \subseteq DOMAIN tasks'
    /\ \A id \in DOMAIN tasks :
         /\ IsTerminal(tasks[id].item.status) => tasks'[id].item = tasks[id].item
         /\ tasks'[id].item.status # tasks[id].item.status
              => IsTerminal(tasks'[id].item.status)
    /\ \A id \in DOMAIN tasks' \ DOMAIN tasks :
         /\ tasks'[id].item.status = "queued"
         /\ tasks'[id].item.downloaded = 0
         /\ ~tasks'[id].cancel

\* C14: the registry status is one of the five, moves only to a terminal
\* status, and a terminal record is changed by no later pause, listing or
\* start; a start makes a new record under a new id.
C14_StatusOneWay == []StatusClosed /\ [][RegistryStep]_vars

C14_Witness ==
  /\ DOMAIN tasks = {1, 2}
  /\ tasks[1].item.status = "paused"
  /\ tasks[1].item.archive_id = tasks[2].item.archive_id
  /\ tasks[2].item.status = "completed"
  /\ tasks[2].cancel

\* A call of start_archive_download that has returned an error of the two
\* kinds has changed nothing but its return value.
StartFailureStep ==
  (ret' # ret /\ ret'.v \in {"missing_master_key", "server_error:500", "server_error:404"})
    => /\ UNCHANGED <<tasks, drv, events, cache, nextId, out>>
       /\ ret'.v = "missing_master_key" => (~master_key.some /\ ret'.requests = 0)
       /\ ret'.v # "missing_master_key" => (master_key.some /\ ret'.requests = 1)

\* C15: a start without a master key returns missing_master_key and sends
\* no request, a start whose manifest request is answered with a status
\* other than 2xx returns server_error:<code>, and neither inserts a task,
\* creates a cache directory, emits an event or spawns a driver.
C15_StartFailuresLeaveNoTrace ==
  /\ [](DOMAIN tasks = DOMAIN drv /\ DOMAIN events = DOMAIN drv
         /\ (ret.v = "ok" => DOMAIN tasks # {}))
  /\ [][StartFailureStep]_vars

C15_Witness ==
  /\ ret.v = "server_error:500"
  /\ client
  /\ master_key.some
  /\ \A a \in ArchiveIds : ~cache[a].exists

\* C16: the first progress event of a download has the status queued, and
\* every downloading and terminal event of it comes later.
C16_QueuedEventFirst ==
  \A id \in DOMAIN events :
    /\ events[id] # <<>> => events[id][1].status = "queued"
    /\ \A i \in 2..Len(events[id]) : events[id][i].status # "queued"

\* C17: until the computed tag has matched, the decrypted bytes go to a
\* temporary path other than the output path, and the output path is
\* neither created, written, renamed onto nor deleted.
C17_OutputOnlyAfterAuthentication ==
  \A id \in DOMAIN drv :
    LET d == drv[id]
        dest == DestPath(d)
    IN (d.pc = "decrypt_part" \/ d.decrypt_result = "auth_tag_mismatch") =>
         /\ DecryptTarget(dest, d.file_index) # dest
         /\ dest \notin d.touched
         /\ dest \in DOMAIN out <=> dest \in DOMAIN d.out_before
         /\ dest \in DOMAIN out => out[dest] = d.out_before[dest]

\* The bytes of the entry a download with file_index selects: the entry of
\* the target name if there is one, else the entry at position file_index.
SelectedEntry(d) ==
  LET entries == ZipEntries(PlainOf(d.archive_id)).entries
      files == d.m.files.v
      target_name == IF d.file_index.v + 1 <= Len(files)
                        /\ files[d.file_index.v + 1].originalName.some
                     THEN files[d.file_index.v + 1].originalName.v
                     ELSE FileN(d.file_index.v + 1)
      named == {i \in 1..Len(entries) : entries[i].name = target_name}
  IN IF named # {} THEN entries[CHOOSE i \in named : \A j \in named : i <= j].data
     ELSE entries[d.file_index.v + 1].data

\* C20: a download with file_index that ends completed has the bytes of the
\* selected entry at its output path, and its temporary file is gone.
C20_SingleEntryExtraction ==
  \A id \in DOMAIN drv :
    LET d == drv[id]
        dest == DestPath(d)
        target == DecryptTarget(dest, d.file_index)
    IN (d.pc \in {"emit", "update_status"} /\ d.term = "completed" /\ d.file_index.some) =>
         /\ dest \in DOMAIN out
         /\ out[dest] = SelectedEntry(d)
         /\ target # dest => target \notin DOMAIN out

\* C18: a part whose verification after the fetch could not be carried out
\* (the part file could not be read) is not accepted: no accepted part that
\* was fetched has a failed read as the result of its verification.
C18_VerificationErrorsFail ==
  \A id \in DOMAIN drv :
    \A i \in 1..Len(drv[id].accepted) :
      drv[id].accepted[i].how = "fetch" => drv[id].accepted[i].post # "err"

\* The driver is at a part it has not reused, or has failed at one.
AtVisit(d) == DOMAIN d.visit # {}

\* C19: in the visit of a part the refresher is asked at most once, and only
\* after the first direct fetch failed with `expired`; at most two direct
\* fetches and one relay fetch are issued, the relay fetch only when no
\* direct fetch has succeeded; and after a failed relay fetch the driver is
\* on its way out with `error`, still at that part, which is not accepted.
C19_BoundedRetryPerPart ==
  \A id \in DOMAIN drv :
    LET d == drv[id]
        v == d.visit
    IN AtVisit(d) =>
         /\ v.refresh <= 1
         /\ (v.refresh = 1 \/ d.pc = "refresh") =>
              /\ v.direct >= 1
              /\ Len(v.errs) >= 1
              /\ v.errs[1] = "expired"
         /\ v.refresh = 1 => v.refreshed_after = "expired"
         /\ v.direct <= 2
         /\ v.direct = 2 => v.refresh = 1
         /\ v.relay <= 1
         /\ v.relay = 1 => ~d.direct_ok
         /\ v.relay_failed =>
              /\ v.relay = 1
              /\ d.pc \in {"emit", "update_status"}
              /\ d.term = "error"
              /\ d.k = v.k
              /\ \A i \in 1..Len(d.accepted) : d.accepted[i].k < v.k

\* The first direct fetch of a part has failed with `expired`, the refresher
\* has been asked, the second direct fetch has failed too and the relay has
\* delivered the part.
C19_Witness ==
  \E id \in DOMAIN drv :
    /\ drv[id].pc = "verify"
    /\ Len(drv[id].visit.errs) = 2
    /\ drv[id].visit.errs[1] = "expired"
    /\ drv[id].visit.refresh = 1
    /\ drv[id].visit.direct = 2
    /\ drv[id].visit.relay = 1

\* A step seen from the cancel flags: a flag that is set stays set while
\* its task is in the registry; a step that raises the flag of a task
\* changes nothing else - not the record of that task, not another task, no
\* event, no driver; and a step that moves no driver and starts none (a
\* pause_download for an unknown id among them) leaves the records as they were.
PauseStep ==
  /\ \A id \in DOMAIN tasks \cap DOMAIN tasks' :
       /\ tasks[id].cancel => tasks'[id].cancel
       /\ (~tasks[id].cancel /\ tasks'[id].cancel) =>
            /\ tasks' = [tasks EXCEPT ![id].cancel = TRUE]
            /\ tasks'[id].item = tasks[id].item
            /\ \A other \in DOMAIN tasks \ {id} : tasks'[other] = tasks[other]
            /\ UNCHANGED <<client, master_key, nextId, drv, events, now, cache, out,
                           faults, ret, gcm, san, plan>>
  /\ UNCHANGED <<drv, events>> =>
       /\ DOMAIN tasks' = DOMAIN tasks
       /\ \A id \in DOMAIN tasks : tasks'[id].item = tasks[id].item

\* C21: pause_download(id) only sets the cancel flag of the task with that
\* id: the record of that task, every other task and the events are left as
\* they were, an unknown id changes nothing, and a flag once set is never
\* cleared.
C21_PauseOnlySetsFlag == [][PauseStep]_vars

\* pause_download has acted on the second of two tasks before its driver
\* has moved: the flag is set, the record still says queued, nothing has
\* been emitted for it and the first task's flag is clear.
C21_Witness ==
  /\ DOMAIN tasks = {1, 2}
  /\ tasks[2].cancel
  /\ tasks[2].item.status = "queued"
  /\ tasks[2].item.downloaded = 0
  /\ events[2] = <<>>
  /\ ~tasks[1].cancel
  /\ drv[2].pc = "spawned"

\* C22: whenever a terminal event has been emitted for a task,
\* list_downloads reports that status for it: no observer sees the terminal
\* event while the registry still says otherwise.
C22_RegistryAgreesWithEvents ==
  \A id \in DOMAIN events :
    \A i \in TerminalEvents(id) :
      /\ id \in DOMAIN list_downloads
      /\ list_downloads[id].status = events[id][i].status

====
